---- MODULE Spec2Model ----
(***************************************************************************)
(* The lesson-enrichment run of backend/routes/test.js (function test)     *)
(* against the tables of the migration that follows it in the same file:   *)
(* fetch the course, call the generator with bounded retries, parse and    *)
(* normalise the answer, then walk the stored module/lesson tree and       *)
(* replace each lesson's ContentBlock / VideoSearch rows.                  *)
(***************************************************************************)
EXTENDS Integers, Sequences, FiniteSets, TLC

\* ------------------------------------------------------------------ bounds
MaxRuns == 2        \* enrichment runs started one after the other
MaxBlocks == 2      \* length of the content arrays enumerated in SpecBlocks

\* ------------------------------------------------------- program constants
maxAttempts == 3
NullId == 0         \* SQL NULL in the nullable column ContentBlock.mcqId
NullText == "<NULL>" \* SQL NULL in a nullable TEXT column
AcceptedTypes == {"paragraph", "video", "mcq"}

\* Runs (invocations of test()); the sequential specifications use only r1.
Procs == {"r1", "r2"}

\* ------------------------------------------------------------ stored course
\* Lessons per module of the one course the run looks up.  A lesson's id is
\* its position <<module, lesson>> (0-based, as the loops index them).
CourseModules == <<2, 1>>
LessonIds ==
  UNION { { <<i - 1, j - 1>> : j \in 1..CourseModules[i] } : i \in 1..Len(CourseModules) }
NoCourse == [found |-> FALSE]
StoredCourse ==
  [found |-> TRUE,
   modules |-> [i \in 1..Len(CourseModules) |->
                  [lessons |-> [j \in 1..CourseModules[i] |-> [id |-> <<i - 1, j - 1>>]]]]]

\* ------------------------------------------------- JSON values of the model
\* A block of a lesson's "content" array is a JSON object: a record whose
\* DOMAIN is the set of keys present.
Truthy(b, f) == f \in DOMAIN b /\ b[f] # ""
Present(b, f) == f \in DOMAIN b

Paragraph(t) == [type |-> "paragraph", text |-> t]
Video(t) == [type |-> "video", text |-> t]
Mcq(q, o, a, e) == [type |-> "mcq", question |-> q, options |-> o, answer |-> a, explanation |-> e]

McqOk == Mcq("Q", <<"a", "b">>, 0, "E")
McqEmptyOptions == Mcq("Q", <<>>, 0, "E")
McqAnswerOutOfRange == Mcq("Q", <<"a", "b">>, 2, "E")
McqNoQuestion == [type |-> "mcq", options |-> <<"a", "b">>, answer |-> 0, explanation |-> "E"]
McqNoOptions == [type |-> "mcq", question |-> "Q", answer |-> 0, explanation |-> "E"]
McqNoAnswer == [type |-> "mcq", question |-> "Q", options |-> <<"a", "b">>, explanation |-> "E"]
McqNoExplanation == [type |-> "mcq", question |-> "Q", options |-> <<"a", "b">>, answer |-> 1]
VideoNoText == [type |-> "video"]
CodeBlock == [type |-> "code", text |-> "x", language |-> "js"]
NoTypeBlock == [text |-> "A"]

\* The blocks SpecBlocks enumerates content arrays over.
Blocks ==
  { Paragraph("A"), [type |-> "paragraph"], Video("B"), Video(""), VideoNoText,
    McqOk, McqEmptyOptions, McqAnswerOutOfRange, McqNoQuestion, McqNoOptions,
    McqNoAnswer, McqNoExplanation, CodeBlock, NoTypeBlock }

\* ------------------------------------------------ the generator's raw text
\* response.text as a sequence of tokens: an optional opening fence, the
\* body, an optional closing fence.  The body carries the JSON value it
\* spells, or is not JSON at all (kind "garbage").
JsonFence == [tok |-> "fence-json"]
Fence == [tok |-> "fence"]
Body(v) == [tok |-> "text", value |-> v]
Bare(v) == <<Body(v)>>
Fenced(v) == <<JsonFence, Body(v), Fence>>
PlainFenced(v) == <<Fence, Body(v), Fence>>

JGarbage == [kind |-> "garbage"]
JNull == [kind |-> "null"]
JNumber == [kind |-> "number"]
JObjectNoModules == [kind |-> "object", title |-> "T"]
JArray(items) == [kind |-> "array", items |-> items]
JCourse(modules) == [kind |-> "object", title |-> "T", modules |-> modules]
AiLesson(content) == [lesson_title |-> "L", content |-> content]
AiModule(lessons) == [module_title |-> "M", lessons |-> lessons]

\* line 103: trim, drop a leading json fence, drop a trailing fence, trim
StripAnyFence(text) ==
  LET s1 == IF Len(text) > 0 /\ Head(text) \in {JsonFence, Fence} THEN Tail(text) ELSE text
  IN  IF Len(s1) > 0 /\ s1[Len(s1)] = Fence THEN SubSeq(s1, 1, Len(s1) - 1) ELSE s1
Strip(text) ==
  LET s1 == IF Len(text) > 0 /\ Head(text) = JsonFence THEN Tail(text) ELSE text
  IN  IF Len(s1) > 0 /\ s1[Len(s1)] = Fence THEN SubSeq(s1, 1, Len(s1) - 1) ELSE s1

\* JSON.parse(output): a value, or a SyntaxError
JsonParses(text) == Len(text) = 1 /\ text[1].tok = "text" /\ text[1].value.kind # "garbage"
JsonValue(text) == text[1].value

\* block.type && ['paragraph', 'video', 'mcq'].includes(block.type)
HasAcceptedType(b) == Truthy(b, "type") /\ b.type \in AcceptedTypes

\* lines 117-146: the value of enrichedContent, or the reason of the return
NormalizeNoFallback(text) ==
  IF ~JsonParses(text) THEN [ok |-> FALSE, pc |-> "parseFailed"]
  ELSE LET parsed == JsonValue(text) IN
    IF parsed.kind = "null" THEN [ok |-> FALSE, pc |-> "parseFailed"]
    ELSE IF parsed.kind = "object" /\ Present(parsed, "modules")
      THEN [ok |-> TRUE, content |-> parsed]
    ELSE [ok |-> FALSE, pc |-> "badShape"]
Normalize(text) ==
  IF ~JsonParses(text) THEN [ok |-> FALSE, pc |-> "parseFailed"]
  ELSE LET parsed == JsonValue(text) IN
    IF parsed.kind = "null" THEN [ok |-> FALSE, pc |-> "parseFailed"]
    ELSE IF parsed.kind = "object" /\ Present(parsed, "modules")
      THEN [ok |-> TRUE, content |-> parsed]
    ELSE IF parsed.kind = "array"
      THEN [ok |-> TRUE,
            content |-> [modules |-> << [lessons |->
                           << [content |-> SelectSeq(parsed.items, HasAcceptedType)] >>] >>]]
    ELSE [ok |-> FALSE, pc |-> "badShape"]

\* ------------------------------------------------------ reconciliation
\* enrichedContent.modules?.[modIndex] || { lessons: [] }
EnrichedModule(ec, mi) ==
  IF mi + 1 <= Len(ec.modules) THEN ec.modules[mi + 1] ELSE [lessons |-> <<>>]
\* enrichedModule.lessons?.[lessonIndex] || { content: [] }
EnrichedLesson(m, li) ==
  IF Present(m, "lessons") /\ li + 1 <= Len(m.lessons) THEN m.lessons[li + 1]
  ELSE [content |-> <<>>]
\* enrichedLesson.content || []
ContentOf(l) == IF Present(l, "content") THEN l.content ELSE <<>>
ContentAtSwapped(ec, mi, li) == ContentOf(EnrichedLesson(EnrichedModule(ec, li), mi))
ContentAt(ec, mi, li) == ContentOf(EnrichedLesson(EnrichedModule(ec, mi), li))

\* the filter callback of lines 161-171
ValidBlock(b) ==
  /\ HasAcceptedType(b)
  /\ ~( b.type = "mcq" /\
        ( ~Truthy(b, "question") \/ ~Present(b, "options") \/ ~Present(b, "answer")
          \/ ~Truthy(b, "explanation") ) )
ValidBlocksAllOrNothing(content) ==
  IF \A k \in 1..Len(content) : ValidBlock(content[k]) THEN content ELSE <<>>
ValidBlocks(content) == SelectSeq(content, ValidBlock)

\* block.type.toUpperCase(), on the three accepted types
Upper(t) ==
  CASE t = "paragraph" -> "PARAGRAPH" [] t = "video" -> "VIDEO" [] t = "mcq" -> "MCQ"
\* block.text || null, block.language || null
OrNull(b, f) == IF Truthy(b, f) THEN b[f] ELSE NullText
\* block.type === 'video' ? block.text : null  (an undefined text leaves the column NULL)
VideoUrlOf(b) == IF b.type = "video" /\ Present(b, "text") THEN b.text ELSE NullText

\* Fresh row ids of one update that starts at id "base": the block of (0-based)
\* index k gets base + 2k, the MCQOption it owns base + 2k + 1, the VideoSearch
\* of the video block of index k gets base + 2n + k (n blocks in all).
BlockId(base, k) == base + 2 * k
McqId(base, k) == base + 2 * k + 1
VideoId(base, n, k) == base + 2 * n + k

\* index passed to the map callback of line 185: the position in validBlocks
OrderOfOneBased(index) == index + 1
OrderOf(index) == index

\* lines 185-201: the nested ContentBlock creates of one lesson.update
NewContentBlocks(lessonId, valid, base) ==
  { [ id |-> BlockId(base, k - 1),
      order |-> OrderOf(k - 1),
      type |-> Upper(valid[k].type),
      text |-> OrNull(valid[k], "text"),
      language |-> OrNull(valid[k], "language"),
      videoUrl |-> VideoUrlOf(valid[k]),
      lessonId |-> lessonId,
      mcqId |-> IF valid[k].type = "mcq" THEN McqId(base, k - 1) ELSE NullId ]
    : k \in 1..Len(valid) }
\* lines 191-200: the MCQOption each mcq block creates
NewMcqOptions(valid, base) ==
  { [ id |-> McqId(base, k - 1),
      question |-> valid[k].question,
      options |-> valid[k].options,
      answer |-> valid[k].answer,
      explanation |-> valid[k].explanation ]
    : k \in { i \in 1..Len(valid) : valid[i].type = "mcq" } }
\* lines 205-207: one VideoSearch per video block
NewVideoSearches(lessonId, valid, base) ==
  { [ id |-> VideoId(base, Len(valid), k - 1), query |-> valid[k].text, lessonId |-> lessonId ]
    : k \in { i \in 1..Len(valid) : valid[i].type = "video" } }

\* VideoSearch.query is TEXT NOT NULL: a create whose query is undefined is
\* refused by the client and the whole update throws.
QueryMissing(valid) ==
  \E k \in 1..Len(valid) : valid[k].type = "video" /\ ~Present(valid[k], "text")

\* deleteMany: {} on the lesson's contentBlocks / videos relation
RowsKeptByDeleteMany(rows, lessonId) == { r \in rows : r.lessonId # lessonId }

\* The tables after the nested writes of one lesson.update (lines 178-210).
\* ContentBlock.mcqId references MCQOption (ON DELETE SET NULL, line 331):
\* deleting a ContentBlock deletes no MCQOption.
UpdatedContentBlocksAppend(rows, lessonId, valid, base) ==
  rows \cup NewContentBlocks(lessonId, valid, base)
UpdatedContentBlocks(rows, lessonId, valid, base) ==
  RowsKeptByDeleteMany(rows, lessonId) \cup NewContentBlocks(lessonId, valid, base)
UpdatedMcqOptions(rows, valid, base) == rows \cup NewMcqOptions(valid, base)
UpdatedVideoSearches(rows, lessonId, valid, base) ==
  RowsKeptByDeleteMany(rows, lessonId) \cup NewVideoSearches(lessonId, valid, base)
UpdatedLesson(row) == [isEnriched |-> TRUE, objectives |-> <<>>]

\* line 173
NothingToWriteNever(valid) == FALSE
NothingToWrite(valid) == Len(valid) = 0
\* line 25
CourseMissing(c) == ~c.found
\* line 93
LoopContinues(a) == a < maxAttempts
\* line 109
AttemptsExhaustedLate(a) == a = maxAttempts + 1
AttemptsExhausted(a) == a = maxAttempts

\* ------------------------------------------------------------------ state
VARIABLES
  courseStored,        \* the course row with the looked-up id exists
  lessonTable,         \* Lesson rows: id -> [isEnriched, objectives]
  contentBlockTable,   \* ContentBlock rows
  mcqOptionTable,      \* MCQOption rows
  videoSearchTable,    \* VideoSearch rows
  nextId,              \* next fresh row id
  pc,                  \* where each run is
  course,              \* the fetched course (line 14)
  attempt,             \* line 89
  responseText,        \* response.text of the last successful call
  output,              \* line 88
  enrichedContent,     \* line 117
  modIndex,            \* line 151
  lessonIndex,         \* line 155
  error,               \* what the catch of line 216 caught
  connected,           \* the run's client holds a connection
  runs,                \* runs started so far
  calls,               \* generateContent calls of the current run
  written,             \* lessons the current run has updated
  dbAtStart,           \* the tables as they were when the current run started
  prevRun              \* how the run before the current one ended

dbVars == <<courseStored, lessonTable, contentBlockTable, mcqOptionTable, videoSearchTable, nextId>>
runVars == <<pc, course, attempt, responseText, output, enrichedContent, modIndex, lessonIndex,
             error, connected>>
histVars == <<runs, calls, written, dbAtStart, prevRun>>
vars == <<dbVars, runVars, histVars>>

Undefined == [kind |-> "undefined"]
Tables ==
  [lessons |-> lessonTable, blocks |-> contentBlockTable, mcqs |-> mcqOptionTable,
   videos |-> videoSearchTable]
Finished == {"notFound", "exhausted", "parseFailed", "badShape", "dbFailed", "done"}
AbortedEarly == {"notFound", "exhausted", "parseFailed", "badShape"}

Init ==
  /\ courseStored \in BOOLEAN
  /\ lessonTable = [l \in LessonIds |-> [isEnriched |-> FALSE, objectives |-> <<>>]]
  /\ contentBlockTable = {}
  /\ mcqOptionTable = {}
  /\ videoSearchTable = {}
  /\ nextId = 1
  /\ pc = [p \in Procs |-> "idle"]
  /\ course = [p \in Procs |-> NoCourse]
  /\ attempt = [p \in Procs |-> 0]
  /\ responseText = [p \in Procs |-> <<>>]
  /\ output = [p \in Procs |-> <<>>]
  /\ enrichedContent = [p \in Procs |-> Undefined]
  /\ modIndex = [p \in Procs |-> 0]
  /\ lessonIndex = [p \in Procs |-> 0]
  /\ error = [p \in Procs |-> "none"]
  /\ connected = [p \in Procs |-> FALSE]
  /\ runs = 0
  /\ calls = [p \in Procs |-> 0]
  /\ written = [p \in Procs |-> {}]
  /\ dbAtStart = [p \in Procs |-> Tables]
  /\ prevRun = [p \in Procs |-> [status |-> "none", content |-> Undefined]]

\* ---------------------------------------------------------------- actions
\* test() is invoked (line 224) once the previous invocation has returned.
StartRun(p, limit) ==
  /\ pc[p] \in Finished \cup {"idle"}
  /\ runs < limit
  /\ runs' = runs + 1
  /\ pc' = [pc EXCEPT ![p] = "fetch"]
  /\ course' = [course EXCEPT ![p] = NoCourse]
  /\ attempt' = [attempt EXCEPT ![p] = 0]
  /\ responseText' = [responseText EXCEPT ![p] = <<>>]
  /\ output' = [output EXCEPT ![p] = <<>>]
  /\ enrichedContent' = [enrichedContent EXCEPT ![p] = Undefined]
  /\ modIndex' = [modIndex EXCEPT ![p] = 0]
  /\ lessonIndex' = [lessonIndex EXCEPT ![p] = 0]
  /\ error' = [error EXCEPT ![p] = "none"]
  /\ connected' = [connected EXCEPT ![p] = FALSE]
  /\ calls' = [calls EXCEPT ![p] = 0]
  /\ written' = [written EXCEPT ![p] = {}]
  /\ dbAtStart' = [dbAtStart EXCEPT ![p] = Tables]
  /\ prevRun' = [prevRun EXCEPT ![p] =
                   IF pc[p] = "idle" THEN @
                   ELSE [status |-> pc[p], content |-> enrichedContent[p]]]
  /\ UNCHANGED dbVars

\* lines 14-28: prisma.course.findUnique and the not-found return
Fetch(p) ==
  /\ pc[p] = "fetch"
  /\ LET c == IF courseStored THEN StoredCourse ELSE NoCourse IN
       /\ course' = [course EXCEPT ![p] = c]
       /\ pc' = [pc EXCEPT ![p] = IF CourseMissing(c) THEN "notFound" ELSE "generate"]
  /\ connected' = [connected EXCEPT ![p] = TRUE]
  /\ UNCHANGED <<dbVars, histVars, attempt, responseText, output, enrichedContent,
                 modIndex, lessonIndex, error>>

\* lines 94-105: the call returns a text; break
GenerateOk(p, text) ==
  /\ pc[p] = "generate"
  /\ calls' = [calls EXCEPT ![p] = @ + 1]
  /\ responseText' = [responseText EXCEPT ![p] = text]
  /\ output' = [output EXCEPT ![p] = Strip(text)]
  /\ pc' = [pc EXCEPT ![p] = "parse"]
  /\ UNCHANGED <<dbVars, runs, written, dbAtStart, prevRun, course, attempt, enrichedContent,
                 modIndex, lessonIndex, error, connected>>

\* lines 106-112: the call (or the reading of its text) throws
GenerateFail(p) ==
  /\ pc[p] = "generate"
  /\ calls' = [calls EXCEPT ![p] = @ + 1]
  /\ attempt' = [attempt EXCEPT ![p] = @ + 1]
  /\ pc' = [pc EXCEPT ![p] = IF AttemptsExhausted(attempt[p] + 1) THEN "exhausted" ELSE "wait"]
  /\ UNCHANGED <<dbVars, runs, written, dbAtStart, prevRun, course, responseText, output,
                 enrichedContent, modIndex, lessonIndex, error, connected>>

\* line 113, then the loop condition of line 93
Wait(p) ==
  /\ pc[p] = "wait"
  /\ pc' = [pc EXCEPT ![p] = IF LoopContinues(attempt[p]) THEN "generate" ELSE "parse"]
  /\ UNCHANGED <<dbVars, histVars, course, attempt, responseText, output, enrichedContent,
                 modIndex, lessonIndex, error, connected>>

\* lines 117-148
Parse(p) ==
  /\ pc[p] = "parse"
  /\ LET n == Normalize(output[p]) IN
       /\ pc' = [pc EXCEPT ![p] = IF n.ok THEN "reconcile" ELSE n.pc]
       /\ enrichedContent' = [enrichedContent EXCEPT ![p] = IF n.ok THEN n.content ELSE @]
  /\ UNCHANGED <<dbVars, histVars, course, attempt, responseText, output, modIndex,
                 lessonIndex, error, connected>>

\* the loop conditions of lines 151 and 155
InModule(p) == modIndex[p] < Len(course[p].modules)
InLesson(p) ==
  InModule(p) /\ lessonIndex[p] < Len(course[p].modules[modIndex[p] + 1].lessons)
\* lines 156-171
CurrentLesson(p) == course[p].modules[modIndex[p] + 1].lessons[lessonIndex[p] + 1]
CurrentValidBlocks(p) ==
  ValidBlocks(ContentAt(enrichedContent[p], modIndex[p], lessonIndex[p]))

\* the inner loop ends: modIndex++
NextModule(p) ==
  /\ pc[p] = "reconcile" /\ InModule(p) /\ ~InLesson(p)
  /\ modIndex' = [modIndex EXCEPT ![p] = @ + 1]
  /\ lessonIndex' = [lessonIndex EXCEPT ![p] = 0]
  /\ UNCHANGED <<dbVars, histVars, pc, course, attempt, responseText, output,
                 enrichedContent, error, connected>>

\* lines 173-176
SkipLesson(p) ==
  /\ pc[p] = "reconcile" /\ InLesson(p)
  /\ NothingToWrite(CurrentValidBlocks(p))
  /\ lessonIndex' = [lessonIndex EXCEPT ![p] = @ + 1]
  /\ UNCHANGED <<dbVars, histVars, pc, course, attempt, responseText, output,
                 enrichedContent, modIndex, error, connected>>

\* lines 178-212: the update resolves
UpdateLessonExclusive(p) ==
  /\ pc[p] = "reconcile" /\ InLesson(p)
  /\ \A q \in Procs \ {p} : pc[q] # "reconcile"
  /\ ~NothingToWrite(CurrentValidBlocks(p))
  /\ ~QueryMissing(CurrentValidBlocks(p))
  /\ LET id == CurrentLesson(p).id
         valid == CurrentValidBlocks(p) IN
       /\ lessonTable' = [lessonTable EXCEPT ![id] = UpdatedLesson(@)]
       /\ contentBlockTable' = UpdatedContentBlocks(contentBlockTable, id, valid, nextId)
       /\ mcqOptionTable' = UpdatedMcqOptions(mcqOptionTable, valid, nextId)
       /\ videoSearchTable' = UpdatedVideoSearches(videoSearchTable, id, valid, nextId)
       /\ nextId' = nextId + 3 * Len(valid)
       /\ written' = [written EXCEPT ![p] = @ \cup {id}]
  /\ lessonIndex' = [lessonIndex EXCEPT ![p] = @ + 1]
  /\ UNCHANGED <<courseStored, runs, calls, dbAtStart, prevRun, pc, course, attempt,
                 responseText, output, enrichedContent, modIndex, error, connected>>
UpdateLesson(p) ==
  /\ pc[p] = "reconcile" /\ InLesson(p)
  /\ ~NothingToWrite(CurrentValidBlocks(p))
  /\ ~QueryMissing(CurrentValidBlocks(p))
  /\ LET id == CurrentLesson(p).id
         valid == CurrentValidBlocks(p) IN
       /\ lessonTable' = [lessonTable EXCEPT ![id] = UpdatedLesson(@)]
       /\ contentBlockTable' = UpdatedContentBlocks(contentBlockTable, id, valid, nextId)
       /\ mcqOptionTable' = UpdatedMcqOptions(mcqOptionTable, valid, nextId)
       /\ videoSearchTable' = UpdatedVideoSearches(videoSearchTable, id, valid, nextId)
       /\ nextId' = nextId + 3 * Len(valid)
       /\ written' = [written EXCEPT ![p] = @ \cup {id}]
  /\ lessonIndex' = [lessonIndex EXCEPT ![p] = @ + 1]
  /\ UNCHANGED <<courseStored, runs, calls, dbAtStart, prevRun, pc, course, attempt,
                 responseText, output, enrichedContent, modIndex, error, connected>>

\* lines 178-210 throw on the create without query; lines 216-221
UpdateRefused(p) ==
  /\ pc[p] = "reconcile" /\ InLesson(p)
  /\ ~NothingToWrite(CurrentValidBlocks(p))
  /\ QueryMissing(CurrentValidBlocks(p))
  /\ pc' = [pc EXCEPT ![p] = "dbFailed"]
  /\ error' = [error EXCEPT ![p] = "validation"]
  /\ connected' = [connected EXCEPT ![p] = FALSE]
  /\ UNCHANGED <<dbVars, histVars, course, attempt, responseText, output, enrichedContent,
                 modIndex, lessonIndex>>

\* lines 178-210 throw because the store fails; lines 216-221
UpdateFaultSwallowed(p) ==
  /\ pc[p] = "reconcile" /\ InLesson(p)
  /\ ~NothingToWrite(CurrentValidBlocks(p))
  /\ ~QueryMissing(CurrentValidBlocks(p))
  /\ error' = [error EXCEPT ![p] = "store"]
  /\ lessonIndex' = [lessonIndex EXCEPT ![p] = @ + 1]
  /\ UNCHANGED <<dbVars, histVars, pc, course, attempt, responseText, output, enrichedContent,
                 modIndex, connected>>
UpdateFault(p) ==
  /\ pc[p] = "reconcile" /\ InLesson(p)
  /\ ~NothingToWrite(CurrentValidBlocks(p))
  /\ ~QueryMissing(CurrentValidBlocks(p))
  /\ pc' = [pc EXCEPT ![p] = "dbFailed"]
  /\ error' = [error EXCEPT ![p] = "store"]
  /\ connected' = [connected EXCEPT ![p] = FALSE]
  /\ UNCHANGED <<dbVars, histVars, course, attempt, responseText, output, enrichedContent,
                 modIndex, lessonIndex>>

\* line 215 and the finally of lines 219-221
Finish(p) ==
  /\ pc[p] = "reconcile" /\ ~InModule(p)
  /\ pc' = [pc EXCEPT ![p] = "done"]
  /\ connected' = [connected EXCEPT ![p] = FALSE]
  /\ UNCHANGED <<dbVars, histVars, course, attempt, responseText, output, enrichedContent,
                 modIndex, lessonIndex, error>>

\* ------------------------------------------------------ generator answers
Rich == <<Paragraph("A"), McqOk, Video("B")>>
Mixed == <<CodeBlock, Video("C"), McqNoExplanation, Paragraph("D")>>
Junk == <<NoTypeBlock, McqNoQuestion>>
Unstorable == <<Paragraph("E"), VideoNoText>>
LessonContents == {Rich, Mixed}

OneLesson(c) == JCourse(<< AiModule(<< AiLesson(c) >>) >>)
FullTree(a, b, c) ==
  JCourse(<< AiModule(<< AiLesson(a), AiLesson(b) >>), AiModule(<< AiLesson(c) >>) >>)
\* a module without "lessons", a lesson without "content"
SparseTree ==
  JCourse(<< [module_title |-> "M"], AiModule(<< [lesson_title |-> "L"] >>) >>)

Values ==
  { JCourse(<<>>), SparseTree, JArray(Rich), JNull, JNumber, JObjectNoModules, JGarbage }
  \cup { OneLesson(c) : c \in LessonContents \cup {Junk, Unstorable} }
  \cup { FullTree(a, b, c) : a \in LessonContents, b \in LessonContents, c \in LessonContents }

\* what the generator may answer in Spec
Outputs ==
  { Bare(v) : v \in Values } \cup { Fenced(OneLesson(Rich)), PlainFenced(OneLesson(Rich)) }

ContentArrays == UNION { [1..n -> Blocks] : n \in 0..MaxBlocks }
\* what the generator may answer in SpecBlocks
BlockOutputs == { Bare(OneLesson(c)) : c \in ContentArrays }

\* ---------------------------------------------------------- specifications
Step(p, texts, limit) ==
  \/ StartRun(p, limit)
  \/ Fetch(p)
  \/ \E t \in texts : GenerateOk(p, t)
  \/ GenerateFail(p)
  \/ Wait(p)
  \/ Parse(p)
  \/ NextModule(p)
  \/ SkipLesson(p)
  \/ UpdateLesson(p)
  \/ UpdateRefused(p)
  \/ UpdateFault(p)
  \/ Finish(p)

\* runs one after the other, answers from Outputs
Next == Step("r1", Outputs, MaxRuns)
Spec == Init /\ [][Next]_vars

\* a single run, answers with every content array over Blocks
NextBlocks == Step("r1", BlockOutputs, 1)
SpecBlocks == Init /\ [][NextBlocks]_vars

\* a single run, answers of every shape, among them every bare array over Blocks
ShapeOutputs == { Bare(v) : v \in Values } \cup { Bare(JArray(c)) : c \in ContentArrays }
NextShapes == Step("r1", ShapeOutputs, 1)
SpecShapes == Init /\ [][NextShapes]_vars

\* two invocations for the same course at the same time, each its own
\* process with its own locals, sharing only the database
ConcOutputs ==
  { Bare(FullTree(Rich, Rich, Rich)), Bare(FullTree(Mixed, Mixed, Mixed)),
    Bare(FullTree(Junk, Unstorable, Junk)) }
NextConc == Step("r1", ConcOutputs, 2) \/ Step("r2", ConcOutputs, 2)
SpecConc == Init /\ [][NextConc]_vars

\* ------------------------------------------------------------------ claims
\* The JSON value the generator's text spells (the body token of response.text).
AnswerValue(p) ==
  LET bodies == { k \in 1..Len(responseText[p]) : responseText[p][k].tok = "text" }
  IN  IF bodies = {} THEN JGarbage ELSE responseText[p][CHOOSE k \in bodies : TRUE].value
AfterGeneration == {"parse", "reconcile", "parseFailed", "badShape", "dbFailed", "done"}

\* C1: the generator is called at most 3 times per run; a run whose calls
\* all failed has stopped after exactly 3 calls (and 3 failures always stop
\* it); a run past the retry loop made exactly one call more than it saw
\* failures, the last one being the success, and none after it.
C1_RetryBound ==
  \A p \in Procs :
    /\ calls[p] <= 3
    /\ pc[p] = "exhausted" => calls[p] = 3 /\ attempt[p] = 3
    /\ attempt[p] = 3 => pc[p] = "exhausted"
    /\ pc[p] \in AfterGeneration => calls[p] = attempt[p] + 1 /\ attempt[p] <= 2
C1_Witness ==
  \E p \in Procs : pc[p] = "done" /\ attempt[p] = 2 /\ calls[p] = 3 /\ written[p] # {}

\* The generator's text is a JSON value of a usable shape, possibly inside
\* a json fence: the only texts the run does not abort on.
UsableAnswer(text) ==
  LET usable(t) == /\ t.tok = "text"
                   /\ \/ t.value.kind = "array"
                      \/ t.value.kind = "object" /\ "modules" \in DOMAIN t.value
  IN  \/ Len(text) = 1 /\ usable(text[1])
      \/ Len(text) = 2 /\ text[1] = JsonFence /\ usable(text[2])
      \/ Len(text) = 2 /\ usable(text[1]) /\ text[2] = Fence
      \/ Len(text) = 3 /\ text[1] = JsonFence /\ usable(text[2]) /\ text[3] = Fence

\* C2: a run that has no course, or whose 3 attempts failed, or whose text
\* does not parse to an object with modules or to an array, never reaches
\* the reconciliation; and a run that has not reached it has issued no
\* update: every table is as it was when the run started.
C2_AbortWritesNothing ==
  \A p \in Procs :
    /\ pc[p] \in {"reconcile", "dbFailed", "done"} =>
         course[p].found /\ attempt[p] < 3 /\ UsableAnswer(responseText[p])
    /\ pc[p] \in AbortedEarly \cup {"fetch", "generate", "wait", "parse"} =>
         Tables = dbAtStart[p] /\ written[p] = {}
C2_Witness ==
  \E p \in Procs :
    /\ pc[p] \in {"parseFailed", "badShape"}
    /\ contentBlockTable # {} /\ mcqOptionTable # {} /\ videoSearchTable # {}
    /\ \E l \in LessonIds : lessonTable[l].isEnriched

\* The AI output's module i has a lesson j (0-based), and that lesson's content.
AiHasLesson(v, i, j) ==
  /\ v.kind = "object" /\ "modules" \in DOMAIN v
  /\ i + 1 <= Len(v.modules)
  /\ "lessons" \in DOMAIN v.modules[i + 1]
  /\ j + 1 <= Len(v.modules[i + 1].lessons)
AiLessonContent(v, i, j) ==
  IF AiHasLesson(v, i, j) /\ "content" \in DOMAIN v.modules[i + 1].lessons[j + 1]
  THEN v.modules[i + 1].lessons[j + 1].content ELSE <<>>

\* What a lesson holds in the tables t, row ids left out: its ContentBlocks
\* (each with the MCQOption it references) and its VideoSearch queries.
McqOf(t, r) ==
  IF r.mcqId = NullId THEN [none |-> TRUE]
  ELSE LET m == CHOOSE m \in t.mcqs : m.id = r.mcqId
       IN  [question |-> m.question, options |-> m.options, answer |-> m.answer,
            explanation |-> m.explanation]
BlockRowsOf(t, l) == { r \in t.blocks : r.lessonId = l }
VideoRowsOf(t, l) == { r \in t.videos : r.lessonId = l }
StoredBlocks(t, l) ==
  { [order |-> r.order, type |-> r.type, text |-> r.text, language |-> r.language,
     videoUrl |-> r.videoUrl, mcq |-> McqOf(t, r)] : r \in BlockRowsOf(t, l) }
\* the same for the rows one update creates from the content array c
ExpectedBlocks(l, c) ==
  StoredBlocks([blocks |-> NewContentBlocks(l, ValidBlocks(c), 1),
                mcqs |-> NewMcqOptions(ValidBlocks(c), 1)], l)
LessonUntouched(p, l) ==
  /\ lessonTable[l] = dbAtStart[p].lessons[l]
  /\ BlockRowsOf(Tables, l) = BlockRowsOf(dbAtStart[p], l)
  /\ VideoRowsOf(Tables, l) = VideoRowsOf(dbAtStart[p], l)

C3_Positions(p) ==
  pc[p] \in {"reconcile", "dbFailed", "done"} /\ AnswerValue(p).kind = "object" =>
    /\ \A l \in LessonIds :
         /\ l \in written[p] =>
              StoredBlocks(Tables, l) = ExpectedBlocks(l, AiLessonContent(AnswerValue(p), l[1], l[2]))
         /\ ~AiHasLesson(AnswerValue(p), l[1], l[2]) => l \notin written[p] /\ LessonUntouched(p, l)
    /\ pc[p] = "dbFailed" => AiHasLesson(AnswerValue(p), modIndex[p], lessonIndex[p])
C3_SkipStep(p) ==
  ( /\ pc[p] = "reconcile" /\ InLesson(p) /\ AnswerValue(p).kind = "object"
    /\ ~AiHasLesson(AnswerValue(p), modIndex[p], lessonIndex[p]) )
  => /\ pc'[p] = "reconcile"
     /\ lessonIndex'[p] = lessonIndex[p] + 1 /\ modIndex'[p] = modIndex[p]
     /\ Tables' = Tables

\* C3: a lesson the run has written holds exactly the rows made from the
\* content of the AI lesson at the same module and lesson index; a stored
\* lesson at a position the AI output does not have is not written and keeps
\* its rows; the step at such a position raises nothing and moves on to the
\* next lesson, and no failure of the run is ever at such a position.
C3_Positional ==
  /\ [](\A p \in Procs : C3_Positions(p))
  /\ [][\A p \in Procs : C3_SkipStep(p)]_vars
C3_Witness ==
  \E p \in Procs :
    /\ pc[p] = "done" /\ AnswerValue(p).kind = "object"
    /\ written[p] = {<<0, 0>>}
    /\ ~AiHasLesson(AnswerValue(p), 0, 1) /\ ~AiHasLesson(AnswerValue(p), 1, 0)
    /\ ~lessonTable[<<0, 1>>].isEnriched /\ ~lessonTable[<<1, 0>>].isEnriched

\* A block as the prompt describes it: one of the three types, an mcq with
\* question, a non-empty options array, an answer inside it, an explanation.
TypeName == [paragraph |-> "PARAGRAPH", video |-> "VIDEO", mcq |-> "MCQ"]
WellFormedBlock(b) ==
  /\ "type" \in DOMAIN b /\ b.type \in {"paragraph", "video", "mcq"}
  /\ b.type = "mcq" =>
       /\ {"question", "options", "answer", "explanation"} \subseteq DOMAIN b
       /\ b.question # "" /\ b.explanation # ""
       /\ Len(b.options) > 0 /\ b.answer \in 0..(Len(b.options) - 1)
\* the row r stores the block b
RowStores(t, r, b) ==
  /\ r.type = TypeName[b.type]
  /\ b.type = "mcq" => McqOf(t, r).question = b.question
  /\ b.type # "mcq" /\ "text" \in DOMAIN b /\ b.text # "" => r.text = b.text

C5_McqOptionInRange ==
  \A r \in contentBlockTable :
    /\ r.type = "MCQ" =>
         /\ Cardinality({ m \in mcqOptionTable : m.id = r.mcqId }) = 1
         /\ \A m \in mcqOptionTable : m.id = r.mcqId =>
              Len(m.options) > 0 /\ m.answer \in 0..(Len(m.options) - 1)
    /\ r.type # "MCQ" => r.mcqId = NullId

\* A block the validation drops: no accepted type, or an mcq without one of
\* question, options, answer, explanation.
DroppedBlock(b) ==
  \/ "type" \notin DOMAIN b
  \/ b.type \notin {"paragraph", "video", "mcq"}
  \/ b.type = "mcq" /\ ~({"question", "options", "answer", "explanation"} \subseteq DOMAIN b)
KeptBlock(b) == ~DroppedBlock(b)
CountOfType(c, t) == Cardinality({ k \in 1..Len(c) : c[k].type = t })
C6_Step(p) ==
  LET c == AiLessonContent(AnswerValue(p), modIndex[p], lessonIndex[p])
      kept == SelectSeq(c, KeptBlock)
      l == <<modIndex[p], lessonIndex[p]>>
  IN  ( /\ pc[p] = "reconcile" /\ InLesson(p)
        /\ \E k \in 1..Len(c) : DroppedBlock(c[k]) )
      => /\ pc'[p] = "dbFailed" =>
              /\ Tables' = Tables /\ Len(kept) > 0
              /\ \/ error'[p] = "store"
                 \/ \E k \in 1..Len(kept) : kept[k].type = "video" /\ "text" \notin DOMAIN kept[k]
         /\ pc'[p] # "dbFailed" =>
              /\ pc'[p] = "reconcile" /\ lessonIndex'[p] = lessonIndex[p] + 1
              /\ IF Len(kept) = 0 THEN Tables' = Tables
                 ELSE /\ Cardinality(BlockRowsOf(Tables', l)) = Len(kept)
                      /\ \A k \in 1..Len(kept) : \E r \in BlockRowsOf(Tables', l) :
                           r.order = k - 1 /\ RowStores(Tables', r, kept[k])
                      /\ Cardinality(mcqOptionTable' \ mcqOptionTable) = CountOfType(kept, "mcq")
                      /\ Cardinality(VideoRowsOf(Tables', l)) = CountOfType(kept, "video")

C7_VideoSearchMatchesBlocks ==
  \A p \in Procs : \A l \in written[p] :
    LET vb == { r \in BlockRowsOf(Tables, l) : r.type = "VIDEO" }
        vs == VideoRowsOf(Tables, l)
    IN  /\ Cardinality(vb) = Cardinality(vs)
        /\ \A t \in { r.text : r \in vb } \cup { r.query : r \in vs } :
             Cardinality({ r \in vb : r.text = t }) = Cardinality({ r \in vs : r.query = t })

StoredQueries(t, l) == { r.query : r \in VideoRowsOf(t, l) }
SameContentSet(t, u, l) ==
  /\ t.lessons[l] = u.lessons[l]
  /\ StoredBlocks(t, l) = StoredBlocks(u, l)
  /\ Cardinality(BlockRowsOf(t, l)) = Cardinality(BlockRowsOf(u, l))
  /\ StoredQueries(t, l) = StoredQueries(u, l)
  /\ Cardinality(VideoRowsOf(t, l)) = Cardinality(VideoRowsOf(u, l))

\* C8: when a run that ended successfully is followed by a run with the same
\* AI output that ends successfully too, every lesson holds after the second
\* run the content it held after the first: as many ContentBlocks, with the
\* same orders, types, texts and MCQ payloads, and the same VideoSearch
\* queries; and none of a rewritten lesson's old rows is still there.
C8_Idempotent ==
  \A p \in Procs :
    ( /\ pc[p] = "done" /\ prevRun[p].status = "done"
      /\ prevRun[p].content = enrichedContent[p] )
    => \A l \in LessonIds :
         /\ SameContentSet(Tables, dbAtStart[p], l)
         /\ l \in written[p] =>
              /\ BlockRowsOf(Tables, l) \cap BlockRowsOf(dbAtStart[p], l) = {}
              /\ VideoRowsOf(Tables, l) \cap VideoRowsOf(dbAtStart[p], l) = {}
C8_Witness ==
  \E p \in Procs :
    /\ pc[p] = "done" /\ prevRun[p].status = "done"
    /\ prevRun[p].content = enrichedContent[p]
    /\ written[p] = {<<0, 0>>, <<0, 1>>, <<1, 0>>}
    /\ \E r \in contentBlockTable : r.type = "MCQ"
    /\ videoSearchTable # {}

\* C9: every stored MCQOption is referenced by exactly one stored
\* ContentBlock: rewriting a lesson leaves no MCQOption of its old blocks.
C9_NoOrphanMcqOption ==
  \A m \in mcqOptionTable :
    Cardinality({ r \in contentBlockTable : r.mcqId = m.id }) = 1

C10_Step(l) ==
  /\ lessonTable[l].isEnriched => lessonTable'[l].isEnriched
  /\ ~lessonTable[l].isEnriched /\ lessonTable'[l].isEnriched =>
       Cardinality(BlockRowsOf(Tables', l) \ contentBlockTable) >= 1

\* C10: no step of any run turns a lesson's isEnriched from true to false,
\* and a step that turns it from false to true creates at least one
\* ContentBlock of that lesson.
C10_EnrichedMonotone == [][\A l \in LessonIds : C10_Step(l)]_vars
C10_Witness ==
  \E p \in Procs : \E l \in LessonIds :
    /\ runs = 2 /\ pc[p] = "done"
    /\ lessonTable[l].isEnriched /\ l \notin written[p] /\ written[p] # {}

\* The content the AI answer v gives the stored lesson j of module i: that of
\* its own lesson at the position, or, for a bare array, the array at <<0, 0>>.
AiContentFor(v, i, j) ==
  IF v.kind = "array" THEN (IF i = 0 /\ j = 0 THEN v.items ELSE <<>>)
  ELSE AiLessonContent(v, i, j)

C11_Normalized(p) ==
  LET v == AnswerValue(p) IN
  /\ pc[p] = "badShape" => v.kind # "array" /\ ~(v.kind = "object" /\ "modules" \in DOMAIN v)
  /\ pc[p] \in {"reconcile", "dbFailed", "done"} =>
       /\ v.kind = "object" => enrichedContent[p] = v
       /\ v.kind = "array" =>
            /\ Len(enrichedContent[p].modules) = 1
            /\ Len(enrichedContent[p].modules[1].lessons) = 1
            /\ SelectSeq(enrichedContent[p].modules[1].lessons[1].content, KeptBlock)
                 = SelectSeq(v.items, KeptBlock)
            /\ \A l \in LessonIds :
                 /\ l \in written[p] =>
                      l = <<0, 0>> /\ StoredBlocks(Tables, l) = ExpectedBlocks(l, v.items)
                 /\ l # <<0, 0>> =>
                      /\ ContentAt(enrichedContent[p], l[1], l[2]) = <<>>
                      /\ LessonUntouched(p, l)

\* C11: an answer that parses to an object with a modules array becomes
\* enrichedContent unchanged; an answer that parses to a bare array is not
\* rejected but becomes one module with one lesson whose content is the array
\* (less the items of no accepted type), so that only lesson 0 of module 0 is
\* ever written, with the rows made from the array, and every other stored
\* lesson has empty content and keeps its rows.
C11_ShapeNormalized == \A p \in Procs : C11_Normalized(p)
C11_Witness ==
  \E p \in Procs :
    /\ pc[p] = "done" /\ AnswerValue(p) = JArray(<<CodeBlock, Paragraph("A")>>)
    /\ written[p] = {<<0, 0>>}
    /\ Cardinality(contentBlockTable) = 1

\* position a comes before position b in the order of the loops
Before(a, b) == a[1] < b[1] \/ (a[1] = b[1] /\ a[2] < b[2])
HasKeptBlock(c) == \E k \in 1..Len(c) : KeptBlock(c[k])

C13_Failed(p) ==
  LET v == AnswerValue(p)
      f == <<modIndex[p], lessonIndex[p]>>
  IN  /\ error[p] # "none" => pc[p] = "dbFailed"
      /\ pc[p] = "dbFailed" =>
           /\ f \in LessonIds /\ error[p] \in {"store", "validation"}
           /\ HasKeptBlock(AiContentFor(v, f[1], f[2]))
           /\ \A l \in LessonIds :
                /\ Before(l, f) /\ HasKeptBlock(AiContentFor(v, l[1], l[2])) =>
                     /\ l \in written[p]
                     /\ lessonTable[l].isEnriched
                     /\ StoredBlocks(Tables, l) = ExpectedBlocks(l, AiContentFor(v, l[1], l[2]))
                     /\ BlockRowsOf(Tables, l) \cap BlockRowsOf(dbAtStart[p], l) = {}
                /\ ~Before(l, f) => l \notin written[p] /\ LessonUntouched(p, l)
      /\ pc[p] = "reconcile" =>
           \A l \in written[p] : Before(l, <<modIndex[p], lessonIndex[p]>>)
C13_Stays(p) ==
  pc[p] = "dbFailed" =>
    \/ pc'[p] = "dbFailed" /\ Tables' = Tables /\ written'[p] = written[p]
    \/ pc'[p] = "fetch" /\ Tables' = Tables

\* C13: lessons are written in module order, then lesson order; when the
\* update of a lesson throws, the run ends failed at that lesson: every
\* lesson before it that had a block to write holds its new content (nothing
\* is rolled back), the failing lesson and every later one are not written
\* and keep their rows, and the run never goes on to its successful end.
C13_FailureAbortsNoRollback ==
  /\ [](\A p \in Procs : C13_Failed(p))
  /\ [][\A p \in Procs : C13_Stays(p)]_vars
C13_Witness ==
  \E p \in Procs :
    /\ pc[p] = "dbFailed" /\ error[p] = "store"
    /\ modIndex[p] = 0 /\ lessonIndex[p] = 1
    /\ written[p] = {<<0, 0>>}
    /\ HasKeptBlock(AiContentFor(AnswerValue(p), 1, 0))
    /\ BlockRowsOf(Tables, <<0, 0>>) # BlockRowsOf(dbAtStart[p], <<0, 0>>)

C14_Step(p) ==
  LET c == AiContentFor(AnswerValue(p), modIndex[p], lessonIndex[p]) IN
  ( pc[p] = "reconcile" /\ InLesson(p) /\ ~HasKeptBlock(c) )
  => /\ Tables' = Tables /\ written'[p] = written[p]
     /\ pc'[p] = "reconcile"
     /\ lessonIndex'[p] = lessonIndex[p] + 1 /\ modIndex'[p] = modIndex[p]
C14_Skipped(p) ==
  pc[p] \in {"reconcile", "dbFailed", "done"} =>
    \A l \in LessonIds :
      ~HasKeptBlock(AiContentFor(AnswerValue(p), l[1], l[2])) =>
        l \notin written[p] /\ LessonUntouched(p, l)

\* C14: at a lesson whose AI content leaves no valid block, the step issues
\* no update and moves on to the next lesson; throughout the run such a lesson
\* keeps the isEnriched flag, objectives, ContentBlocks and VideoSearch rows
\* it had when the run started.
C14_EmptySkipsWrite ==
  /\ [](\A p \in Procs : C14_Skipped(p))
  /\ [][\A p \in Procs : C14_Step(p)]_vars
C14_Witness ==
  \E p \in Procs :
    /\ pc[p] = "done" /\ written[p] = {}
    /\ AiContentFor(AnswerValue(p), 0, 0) = Junk
    /\ lessonTable[<<0, 0>>].isEnriched /\ ~lessonTable[<<1, 0>>].isEnriched
    /\ BlockRowsOf(Tables, <<0, 0>>) # {}

AtStorableLesson(p) ==
  /\ pc[p] = "reconcile" /\ InLesson(p)
  /\ LET c == AiContentFor(AnswerValue(p), modIndex[p], lessonIndex[p]) IN
       /\ HasKeptBlock(c)
       /\ \A k \in 1..Len(c) :
            KeptBlock(c[k]) /\ c[k].type = "video" => "text" \in DOMAIN c[k]
C12_Write(p) ==
  written'[p] # written[p] /\ pc[p] = "reconcile" =>
    LET l == <<modIndex[p], lessonIndex[p]>> IN
    /\ written'[p] = written[p] \cup {l}
    /\ StoredBlocks(Tables', l) = ExpectedBlocks(l, AiContentFor(AnswerValue(p), l[1], l[2]))
    /\ \A m \in LessonIds \ {l} : BlockRowsOf(Tables', m) = BlockRowsOf(Tables, m)

\* C12: nothing guards two runs for the same course against each other: a run
\* standing at a lesson with storable content can always issue its update,
\* wherever the other run is, and the update replaces that lesson's blocks by
\* the run's own and touches no other lesson. So the updates interleave lesson
\* by lesson (C12_Witness: the final state mixes the two runs' content).
C12_Unguarded ==
  /\ [](\A p \in Procs : AtStorableLesson(p) => ENABLED UpdateLesson(p))
  /\ [][\A p \in Procs : C12_Write(p)]_vars
C12_Witness ==
  /\ pc = [p \in Procs |-> "done"] /\ runs = 2
  /\ AnswerValue("r1") = FullTree(Rich, Rich, Rich)
  /\ AnswerValue("r2") = FullTree(Mixed, Mixed, Mixed)
  /\ StoredBlocks(Tables, <<0, 0>>) = ExpectedBlocks(<<0, 0>>, Mixed)
  /\ StoredBlocks(Tables, <<0, 1>>) = ExpectedBlocks(<<0, 1>>, Rich)
  /\ StoredBlocks(Tables, <<1, 0>>) = ExpectedBlocks(<<1, 0>>, Mixed)

====
